---------------------------- MODULE Spec2Model ----------------------------
(***************************************************************************)
(* A model of app.py, the river situation dashboard generator: one run of  *)
(* main() fetches a payload, compares its reporting timestamp with the     *)
(* persisted marker, resolves the configured stations into rows, lays the  *)
(* rows out on a canvas, saves the image and then saves the marker.        *)
(*                                                                         *)
(* Python strings are sequences of one-character strings, so that strip,   *)
(* replace, strptime and the number formatting are computed and not        *)
(* assumed.  A JSON value is a record [t, s, n]: t is its type, s the      *)
(* characters of a string, n the value of a number.                        *)
(***************************************************************************)
EXTENDS Integers, Sequences, FiniteSets, TLC

VARIABLES
    marker,             \* the file last_reading_time.timestamp: [exists, content]
    images,             \* the PNG files of the working directory: {[name, run]}
    pc,                 \* the position of the current run inside main()
    run,                \* the number of the current run
    api_data,           \* the payload returned by fetch_api_data
    should_generate,    \* first result of should_generate_dashboard
    current_timestamp,  \* second result of should_generate_dashboard
    rows,               \* rows returned by create_dashboard
    outfile,            \* file name returned by create_dashboard
    layout,             \* what generate_image computed: H, row positions, dots, connectors
    pre,                \* marker and images as they were when the run started
    prev                \* how the previous run ended and the timestamp it received

vars == <<marker, images, pc, run, api_data, should_generate, current_timestamp,
          rows, outfile, layout, pre, prev>>

---------------------------------------------------------------------------
(* Bounds of the model.                                                    *)

MaxRuns == 3
MaxRecords == 2
MaxOverflow == 1

---------------------------------------------------------------------------
(* Python values and strings.                                              *)

JStr(cs) == [t |-> "str", s |-> cs, n |-> 0]
JInt(k) == [t |-> "int", s |-> << >>, n |-> k]
JNull == [t |-> "null", s |-> << >>, n |-> 0]
JAbsent == [t |-> "absent", s |-> << >>, n |-> 0]

Whitespace == {" ", "\n", "\t"}
Digits == <<"0","1","2","3","4","5","6","7","8","9">>
DigitSet == {Digits[i] : i \in 1..10}
DigitVal(c) == (CHOOSE i \in 1..10 : Digits[i] = c) - 1

\* dict.get(key, default) on a record whose missing keys hold JAbsent
DictGet(d, key, default) == IF d[key].t = "absent" THEN default ELSE d[key]

RECURSIVE LStrip(_)
LStrip(s) ==
    IF s # << >> /\ Head(s) \in Whitespace THEN LStrip(Tail(s)) ELSE s

RECURSIVE RStrip(_)
RStrip(s) ==
    IF s # << >> /\ s[Len(s)] \in Whitespace
    THEN RStrip(SubSeq(s, 1, Len(s) - 1))
    ELSE s

\* str.strip()
Strip(s) == RStrip(LStrip(s))

StartsWith(s, p) == Len(s) >= Len(p) /\ SubSeq(s, 1, Len(p)) = p

\* str.replace(old, new): every non-overlapping occurrence, left to right
RECURSIVE Replace(_, _, _)
Replace(s, old, new) ==
    IF s = << >> THEN << >>
    ELSE IF StartsWith(s, old)
         THEN new \o Replace(SubSeq(s, Len(old) + 1, Len(s)), old, new)
         ELSE <<Head(s)>> \o Replace(Tail(s), old, new)

\* str(n) for an integer
RECURSIVE NatToStr(_)
NatToStr(k) ==
    IF k < 10 THEN <<Digits[k + 1]>>
    ELSE NatToStr(k \div 10) \o <<Digits[(k % 10) + 1]>>

IntToStr(k) == IF k < 0 THEN <<"-">> \o NatToStr(0 - k) ELSE NatToStr(k)

\* f"{n:02d}" for n >= 0
Pad2(k) == IF k < 10 THEN <<"0">> \o NatToStr(k) ELSE NatToStr(k)

RECURSIVE DigitsToNat(_)
DigitsToNat(s) ==
    IF s = << >> THEN 0
    ELSE DigitsToNat(SubSeq(s, 1, Len(s) - 1)) * 10 + DigitVal(s[Len(s)])

AllDigits(s) == \A i \in 1..Len(s) : s[i] \in DigitSet

---------------------------------------------------------------------------
(* datetime.strptime(text, "%d-%b-%Y %H:%M") and the file name.            *)

MonthAbbr == << <<"J","a","n">>, <<"F","e","b">>, <<"M","a","r">>, <<"A","p","r">>, <<"M","a","y">>, <<"J","u","n">>,
                <<"J","u","l">>, <<"A","u","g">>, <<"S","e","p">>, <<"O","c","t">>, <<"N","o","v">>, <<"D","e","c">> >>

IsLeap(y) == (y % 4 = 0 /\ y % 100 # 0) \/ y % 400 = 0

DaysInMonth(y, m) ==
    IF m = 2 THEN (IF IsLeap(y) THEN 29 ELSE 28)
    ELSE IF m \in {4, 6, 9, 11} THEN 30 ELSE 31

\* A directive that takes one or two digits and prefers two: the number of
\* characters it takes from the front of s (0: no match).  lo..hi is the
\* range of a two-digit match; a single digit must be at least lo1.
TakeNum(s, lo, hi, lo1) ==
    IF Len(s) >= 2 /\ s[1] \in DigitSet /\ s[2] \in DigitSet
       /\ DigitsToNat(SubSeq(s, 1, 2)) >= lo /\ DigitsToNat(SubSeq(s, 1, 2)) <= hi
    THEN 2
    ELSE IF Len(s) >= 1 /\ s[1] \in DigitSet /\ DigitVal(s[1]) >= lo1 THEN 1
    ELSE 0

RECURSIVE LeadingSpaces(_)
LeadingSpaces(s) ==
    IF s # << >> /\ Head(s) \in Whitespace THEN 1 + LeadingSpaces(Tail(s)) ELSE 0

Drop(s, k) == SubSeq(s, k + 1, Len(s))

NoDate == [ok |-> FALSE, year |-> 0, month |-> 0, day |-> 0, hour |-> 0, minute |-> 0]

\* %d - %b - %Y, whitespace, %H : %M; anything left over is an error, and so
\* is a day the month does not have.  (%b also accepts other letter cases;
\* the timestamps of this model spell the month as the API does.)
Strptime(s) ==
    LET nd == TakeNum(s, 1, 31, 1)
        s1 == Drop(s, nd)
        ms == {m \in 1..12 : Len(s1) >= 5 /\ SubSeq(s1, 2, 4) = MonthAbbr[m]}
        s2 == Drop(s1, 5)
        nw == LeadingSpaces(Drop(s2, 4))
        s3 == Drop(s2, 4 + nw)
        nh == TakeNum(s3, 0, 23, 0)
        s4 == Drop(s3, nh)
        nm == TakeNum(Drop(s4, 1), 0, 59, 0)
    IN  IF /\ nd > 0
           /\ ms # {}
           /\ s1[1] = "-" /\ s1[5] = "-"
           /\ Len(s2) >= 4 /\ AllDigits(SubSeq(s2, 1, 4))
           /\ nw > 0
           /\ nh > 0
           /\ Len(s4) >= 1 /\ s4[1] = ":"
           /\ nm > 0
           /\ Len(s4) = 1 + nm
        THEN LET y == DigitsToNat(SubSeq(s2, 1, 4))
                 m == CHOOSE m \in ms : TRUE
                 d == DigitsToNat(SubSeq(s, 1, nd))
             IN  IF y >= 1 /\ d <= DaysInMonth(y, m)
                 THEN [ok |-> TRUE, year |-> y, month |-> m, day |-> d,
                       hour |-> DigitsToNat(SubSeq(s3, 1, nh)),
                       minute |-> DigitsToNat(SubSeq(Drop(s4, 1), 1, nm))]
                 ELSE NoDate
        ELSE NoDate

\* Hour12 without the branches for midnight and noon
Hour12Subtracting(hour24) ==
    IF hour24 < 12 THEN <<hour24, <<"A","M">>>> ELSE <<hour24 - 12, <<"P","M">>>>

\* hour24 -> <<hour12, ampm>>
Hour12(hour24) ==
    IF hour24 = 0 THEN <<12, <<"A","M">>>>
    ELSE IF 1 <= hour24 /\ hour24 < 12 THEN <<hour24, <<"A","M">>>>
    ELSE IF hour24 = 12 THEN <<12, <<"P","M">>>>
    ELSE <<hour24 - 12, <<"P","M">>>>

TimePart(dt) ==
    LET h == Hour12(dt.hour)
    IN  IF dt.minute = 0
        THEN NatToStr(h[1]) \o <<" ">> \o h[2]
        ELSE NatToStr(h[1]) \o <<"-">> \o Pad2(dt.minute) \o <<" ">> \o h[2]

FileNameOf(dt) ==
    NatToStr(dt.day) \o <<" ">> \o MonthAbbr[dt.month] \o <<" ">> \o TimePart(dt) \o <<".","p","n","g">>

\* the text the two replace calls leave of latest_time; a value that is not
\* a string has no replace method
DtPart(latest_time) == Replace(Replace(latest_time.s, <<" ","P","S","T">>, << >>), <<" ","P","K","T">>, << >>)

\* the filename construction of create_dashboard: from the report timestamp,
\* or from the clock when the timestamp does not parse
Outfile(latest_time, now) ==
    IF latest_time.t = "str" /\ Strptime(DtPart(latest_time)).ok
    THEN FileNameOf(Strptime(DtPart(latest_time)))
    ELSE FileNameOf(now)

---------------------------------------------------------------------------
(* The tables of the program.                                              *)

\* a dict is a sequence of <<key, value>> pairs; dict.get(key, default)
\* finds nothing for a key that is not a string
Lookup(dict, key, default) ==
    IF key.t = "str" /\ \E i \in 1..Len(dict) : dict[i][1] = key.s
    THEN dict[CHOOSE i \in 1..Len(dict) : dict[i][1] = key.s][2]
    ELSE default

SEVERITY_COLORS == <<
    << <<"N","O","R","M","A","L">>, "#0F8A26" >>,
    << <<"L","O","W">>, "#00B5E2" >>,
    << <<"M","E","D","I","U","M">>, "#F2B233" >>,
    << <<"H","I","G","H">>, "#C95E0C" >>,
    << <<"V","E","R","Y","_","H","I","G","H">>, "#FF2222" >>,
    << <<"V","_","H","I","G","H">>, "#FF2222" >>,
    << <<"E","X","_","H","I","G","H">>, "#5A0A0A" >>,
    << <<"E","X","C","E","P","T","I","O","N","A","L","L","Y","_","H","I","G","H">>, "#5A0A0A" >>,
    << <<"E","X","C","E","P","T","I","O","N","A","L","L","Y"," ","H","I","G","H">>, "#5A0A0A" >>,
    << <<"V","E","R","Y"," ","H","I","G","H">>, "#FF2222" >> >>

SEVERITY_DISPLAY == <<
    << <<"N","O","R","M","A","L">>, <<"N","o","r","m","a","l">> >>,
    << <<"L","O","W">>, <<"L","o","w">> >>,
    << <<"M","E","D","I","U","M">>, <<"M","e","d","i","u","m">> >>,
    << <<"H","I","G","H">>, <<"H","i","g","h">> >>,
    << <<"V","E","R","Y","_","H","I","G","H">>, <<"V"," ","H","i","g","h">> >>,
    << <<"E","X","_","H","I","G","H">>, <<"E","x"," ","H","i","g","h">> >>,
    << <<"E","X","C","E","P","T","I","O","N","A","L","L","Y","_","H","I","G","H">>, <<"E","x"," ","H","i","g","h">> >>,
    << <<"E","X","C","E","P","T","I","O","N","A","L","L","Y"," ","H","I","G","H">>, <<"E","x"," ","H","i","g","h">> >>,
    << <<"V","E","R","Y"," ","H","I","G","H">>, <<"V"," ","H","i","g","h">> >> >>

TREND_COLORS == <<
    << <<"F","a","l","l","i","n","g">>, "#32CD32" >>,
    << <<"S","t","e","a","d","y">>, "#008000" >>,
    << <<"R","i","s","i","n","g">>, "#E00000" >> >>

Station(api_name, river, headwork, short_name) ==
    [key |-> api_name, api_name |-> api_name, river |-> river,
     headwork |-> headwork, short_name |-> short_name]

STATION_ORDER == <<
    Station(<<"J","a","s","s","a","r">>, <<"R","a","v","i">>, <<"J","a","s","s","a","r">>, <<"J","a","s","s","a","r">>),
    Station(<<"S","h","a","h","d","a","r","a">>, <<"R","a","v","i">>, <<"S","h","a","h","d","a","r","a">>, <<"S","h","a","h","d","a","r","a">>),
    Station(<<"B","a","l","l","o","k","i">>, <<"R","a","v","i">>, <<"B","a","l","l","o","k","i">>, <<"B","a","l","l","o","k","i">>),
    Station(<<"S","i","d","h","n","a","i">>, <<"R","a","v","i">>, <<"S","i","d","h","n","a","i">>, <<"S","i","d","h","n","a","i">>),
    Station(<<"M","a","r","a","l","a">>, <<"C","h","e","n","a","b">>, <<"M","a","r","a","l","a">>, <<"M","a","r","a","l","a">>),
    Station(<<"T","r","i","m","m","u">>, <<"C","h","e","n","a","b">>, <<"T","r","i","m","m","u">>, <<"T","r","i","m","m","u">>),
    Station(<<"P","a","n","j","n","a","d">>, <<"C","h","e","n","a","b">>, <<"P","a","n","j","n","a","d">>, <<"P","a","n","j","n","a","d">>),
    Station(<<"G","a","n","d","a"," ","S","i","n","g","h"," ","W","a","l","a">>, <<"S","u","t","l","e","j">>, <<"G","a","n","d","a"," ","S","i","n","g","h"," ","W","a","l","a">>, <<"G","."," ","S","."," ","W","a","l","a">>),
    Station(<<"S","u","l","e","m","a","n","k","i">>, <<"S","u","t","l","e","j">>, <<"S","u","l","e","m","a","n","k","i">>, <<"S","u","l","e","m","a","n","k","i">>),
    Station(<<"I","s","l","a","m">>, <<"S","u","t","l","e","j">>, <<"I","s","l","a","m">>, <<"I","s","l","a","m">>),
    Station(<<"G","u","d","d","u">>, <<"I","n","d","u","s">>, <<"G","u","d","d","u">>, <<"G","u","d","d","u">>) >>

\* row indices as the program counts them, from 0
GROUPS == << <<0, 1, 2, 3>>, <<4, 5, 6>>, <<7, 8, 9>> >>

---------------------------------------------------------------------------
(* Station resolution.                                                     *)

\* find_station_data returning the loop variable after the loop: the last
\* record when no name matches
find_station_data_last_seen(data, station_name) ==
    LET hits == {i \in 1..Len(data) : data[i].name = JStr(station_name)}
    IN  IF hits = {} THEN Len(data) ELSE CHOOSE i \in hits : \A j \in hits : i <= j

\* the first record whose name equals station_name: its index in data,
\* 0 for None
find_station_data(data, station_name) ==
    LET hits == {i \in 1..Len(data) : data[i].name = JStr(station_name)}
    IN  IF hits = {} THEN 0 ELSE CHOOSE i \in hits : \A j \in hits : i <= j

\* str(value)
PyStr(v) ==
    IF v.t = "str" THEN v.s
    ELSE IF v.t = "int" THEN IntToStr(v.n)
    ELSE <<"N","o","n","e">>

\* the digits of int(): single underscores are allowed between digits
IntBodyOk(b) ==
    /\ b # << >>
    /\ \A i \in 1..Len(b) : b[i] \in DigitSet \/ b[i] = "_"
    /\ b[1] # "_" /\ b[Len(b)] # "_"
    /\ \A i \in 1..(Len(b) - 1) : ~(b[i] = "_" /\ b[i + 1] = "_")

\* int(text): [ok, val]; surrounding whitespace and a sign are accepted
IntParse(text) ==
    LET t == Strip(text)
        signed == t # << >> /\ t[1] \in {"+", "-"}
        b == IF signed THEN Tail(t) ELSE t
        mag == DigitsToNat(Replace(b, <<"_">>, << >>))
    IN  IF IntBodyOk(b)
        THEN [ok |-> TRUE, val |-> IF signed /\ t[1] = "-" THEN 0 - mag ELSE mag]
        ELSE [ok |-> FALSE, val |-> 0]

Pad3(k) ==
    IF k < 10 THEN <<"0","0">> \o NatToStr(k)
    ELSE IF k < 100 THEN <<"0">> \o NatToStr(k) ELSE NatToStr(k)

RECURSIVE GroupNat(_)
GroupNat(k) ==
    IF k < 1000 THEN NatToStr(k)
    ELSE GroupNat(k \div 1000) \o <<",">> \o Pad3(k % 1000)

\* f"{n:,}"
Commas(k) == IF k < 0 THEN <<"-">> \o GroupNat(0 - k) ELSE GroupNat(k)

format_flow(discharge) ==
    LET clean_discharge == Replace(PyStr(discharge), <<",">>, << >>)
        parsed == IntParse(clean_discharge)
    IN  IF parsed.ok
        THEN Commas(parsed.val) \o <<" ","c","u","s","e","c","s">>
        ELSE PyStr(discharge) \o <<" ","c","u","s","e","c","s">>

Title(station_info) == station_info.river \o <<" ","a","t"," ">> \o station_info.headwork

\* FoundRow with the two keys of each pair swapped: inflow before outflow
FoundRowInflowFirst(station_info, api_station) ==
    LET status == DictGet(api_station, "status", JStr(<<"N","O","R","M","A","L">>))
        flow == DictGet(api_station, "inflow_discharge",
                        DictGet(api_station, "outflow_discharge", JStr(<<"0">>)))
    IN  [title |-> Title(station_info),
         severity |-> Lookup(SEVERITY_DISPLAY, status, <<"N","o","r","m","a","l">>),
         flow |-> format_flow(flow),
         trend |-> DictGet(api_station, "inflow_trend",
                           DictGet(api_station, "outflow_trend", JStr(<<"S","t","e","a","d","y">>))),
         short_name |-> station_info.short_name,
         status |-> status]

\* the row of a station that find_station_data found
FoundRow(station_info, api_station) ==
    LET status == DictGet(api_station, "status", JStr(<<"N","O","R","M","A","L">>))
        flow == DictGet(api_station, "outflow_discharge",
                        DictGet(api_station, "inflow_discharge", JStr(<<"0">>)))
    IN  [title |-> Title(station_info),
         severity |-> Lookup(SEVERITY_DISPLAY, status, <<"N","o","r","m","a","l">>),
         flow |-> format_flow(flow),
         trend |-> DictGet(api_station, "outflow_trend",
                           DictGet(api_station, "inflow_trend", JStr(<<"S","t","e","a","d","y">>))),
         short_name |-> station_info.short_name,
         status |-> status]

\* the row of a station the payload does not hold
DefaultRow(station_info) ==
    [title |-> Title(station_info),
     severity |-> <<"N","o","r","m","a","l">>,
     flow |-> <<"0"," ","c","u","s","e","c","s">>,
     trend |-> JStr(<<"S","t","e","a","d","y">>),
     short_name |-> station_info.short_name,
     status |-> JStr(<<"N","O","R","M","A","L">>)]

\* api_data.get('data', [])
DataOf(payload) == IF payload.data.t = "absent" THEN << >> ELSE payload.data.items

\* the rows loop of create_dashboard
Rows(payload) ==
    [i \in 1..Len(STATION_ORDER) |->
        LET k == find_station_data(DataOf(payload), STATION_ORDER[i].api_name)
        IN  IF k # 0
            THEN FoundRow(STATION_ORDER[i], DataOf(payload)[k])
            ELSE DefaultRow(STATION_ORDER[i])]

\* create_dashboard raises when 'data' is not a list
DashboardRaises(payload) == payload.data.t = "null"

---------------------------------------------------------------------------
(* The layout engine.                                                      *)

\* int(x * 1.35) for a whole number x
Times135(x) == (x * 135) \div 100

\* calculate_required_height allowing one status line per row
calculate_required_height_one_line(num_stations) ==
    LET content_start == 250 + 13 + 26
        status_height == Times135(34)
        per_station_height == 48 + 12 + status_height + 20
        required_height ==
            content_start + (num_stations * per_station_height) + (3 * 24) + 32 + 100
    IN  IF required_height > 1920 THEN required_height ELSE 1920

calculate_required_height(num_stations) ==
    LET HEADER_H == 250
        SEP_H == 13
        MARGIN_TOP == 26
        BOTTOM_BAR_H == 32
        ROW_GAP == 20
        GROUP_GAP == 24
        TITLE_GAP == 12
        FONT_H1_SIZE == 48
        FONT_BODY_SIZE == 34
        content_start == HEADER_H + SEP_H + MARGIN_TOP
        status_height == Times135(FONT_BODY_SIZE * 2)
        per_station_height == FONT_H1_SIZE + TITLE_GAP + status_height + ROW_GAP
        num_group_gaps == 3
        total_content_height ==
            (num_stations * per_station_height) + (num_group_gaps * GROUP_GAP)
        safety_padding == 100
        required_height ==
            content_start + total_content_height + BOTTOM_BAR_H + safety_padding
        min_height == 1920
    IN  IF required_height > min_height THEN required_height ELSE min_height

W == 1080
FONT_H1_size == 48
FONT_BODY_size == 34
MARGIN_L == 48
TEXT_W == 690
TITLE_GAP == 12
ROW_GAP == 20
GROUP_GAP == 24
HEADER_H == 250
SEP_H == 13
TIMEX == W - 230
DOT_R == 24

Letters == << <<"a","A">>, <<"b","B">>, <<"c","C">>, <<"d","D">>, <<"e","E">>,
              <<"f","F">>, <<"g","G">>, <<"h","H">>, <<"i","I">>, <<"j","J">>,
              <<"k","K">>, <<"l","L">>, <<"m","M">>, <<"n","N">>, <<"o","O">>,
              <<"p","P">>, <<"q","Q">>, <<"r","R">>, <<"s","S">>, <<"t","T">>,
              <<"u","U">>, <<"v","V">>, <<"w","W">>, <<"x","X">>, <<"y","Y">>,
              <<"z","Z">> >>

\* str.upper()
Upper(s) ==
    [i \in 1..Len(s) |->
        IF \E k \in 1..Len(Letters) : Letters[k][1] = s[i]
        THEN Letters[CHOOSE k \in 1..Len(Letters) : Letters[k][1] = s[i]][2]
        ELSE s[i]]

\* draw_status at height y, the full sentence measuring full_w pixels: the
\* bottom edge it returns, the lines it drew and the colours of the severity
\* phrase and of the trend
draw_status(y, maxw, full_w, sev, trend) ==
    LET lh == Times135(FONT_BODY_size)
        sev_color == Lookup(SEVERITY_COLORS,
                            JStr(Replace(Upper(sev), <<" ">>, <<"_">>)), "#0F8A26")
        trend_color == Lookup(TREND_COLORS, trend, "#008000")
    IN  IF full_w <= maxw
        THEN [bottom |-> y + lh, lines |-> 1,
              sev_color |-> sev_color, trend_color |-> trend_color]
        ELSE [bottom |-> (y + lh) + lh, lines |-> 2,
              sev_color |-> sev_color, trend_color |-> trend_color]

\* the dot centre of a row whose status block spans y..bottom
DotCentre(y, bottom) == (y + bottom) \div 2

\* the rows at which an extra gap follows, as the program counts them
GapAfter == {3, 6, 9}

\* the row loop of generate_image from row i (counted from 1) on, y being
\* where its title goes; tl[i] is the measured width of row i's sentence
RECURSIVE RowLoop(_, _, _, _)
RowLoop(rs, tl, i, y) ==
    IF i > Len(rs) THEN << >>
    ELSE LET status_y == y + FONT_H1_size + TITLE_GAP
             st == draw_status(status_y, TEXT_W, tl[i], rs[i].severity, rs[i].trend)
             next_y == st.bottom + ROW_GAP
                       + (IF (i - 1) \in GapAfter THEN GROUP_GAP ELSE 0)
         IN  << [title_y |-> y, status_y |-> status_y, bottom |-> st.bottom,
                 lines |-> st.lines, mid |-> DotCentre(status_y, st.bottom),
                 sev_color |-> st.sev_color, trend_color |-> st.trend_color] >>
             \o RowLoop(rs, tl, i + 1, next_y)

\* zip(group, group[1:])
ZipPairs(group) == [k \in 1..(Len(group) - 1) |-> <<group[k], group[k + 1]>>]

\* the segments one group draws; dot_ys[a + 1] is the program's dot_ys[a]
GroupSegments(group, dot_ys) ==
    LET pairs == ZipPairs(group)
        F[k \in 0..Len(pairs)] ==
            IF k = 0 THEN << >>
            ELSE IF pairs[k][1] < Len(dot_ys) /\ pairs[k][2] < Len(dot_ys)
                 THEN Append(F[k - 1],
                             [a |-> pairs[k][1], b |-> pairs[k][2],
                              x |-> TIMEX,
                              y1 |-> dot_ys[pairs[k][1] + 1] + DOT_R,
                              y2 |-> dot_ys[pairs[k][2] + 1] - DOT_R])
                 ELSE F[k - 1]
    IN  F[Len(pairs)]

\* the connector loop joining every row to the next, whatever its group
ConnectorsOfAllRows(groups, dot_ys) ==
    GroupSegments([k \in 1..Len(dot_ys) |-> k - 1], dot_ys)

\* the connector loop of generate_image, in drawing order
RECURSIVE Connectors(_, _)
Connectors(groups, dot_ys) ==
    IF groups = << >> THEN << >>
    ELSE GroupSegments(Head(groups), dot_ys) \o Connectors(Tail(groups), dot_ys)

\* everything generate_image places on the canvas
Layout(rs, tl) ==
    LET H == calculate_required_height(Len(rs))
        placed == RowLoop(rs, tl, 1, HEADER_H + SEP_H + 26)
        dot_ys == [i \in 1..Len(placed) |-> placed[i].mid]
    IN  [H |-> H,
         placed |-> placed,
         dots |-> [i \in 1..Len(rs) |->
                     [y |-> dot_ys[i],
                      color |-> Lookup(SEVERITY_COLORS, rs[i].status, "#0F8A26")]],
         connectors |-> Connectors(GROUPS, dot_ys),
         bar_top |-> H - 32]

\* drawing a trend that is not text raises inside draw_status
RenderRaises(rs) == \E i \in 1..Len(rs) : rs[i].trend.t # "str"

---------------------------------------------------------------------------
(* The files and one run of main().                                        *)

NoMarker == [exists |-> FALSE, content |-> << >>]

\* get_last_timestamp: the stripped content of the file, None without one
get_last_timestamp(mk) == IF mk.exists THEN JStr(Strip(mk.content)) ELSE JNull

\* should_generate_dashboard: <<changed, current_timestamp>>
should_generate_dashboard(payload, mk) ==
    LET ts == DictGet(payload, "latest_reading_time", JStr(<< >>))
    IN  <<ts # get_last_timestamp(mk), ts>>

\* img.save(outfile, "PNG") in run r: the file is created or overwritten
SaveImage(files, name, r) ==
    {f \in files : f.name # name} \cup {[name |-> name, run |-> r]}

NoPayload == [latest_reading_time |-> JAbsent, data |-> [t |-> "absent", items |-> << >>]]
NoLayout == [H |-> 0, placed |-> << >>, dots |-> << >>, connectors |-> << >>, bar_top |-> 0]
NoPrev == [completed |-> FALSE, timestamp |-> JAbsent]

\* fetch_api_data returns the payload p, or the request fails and the
\* process exits with status 1
FetchApiData(payloads) ==
    /\ pc = "start"
    /\ \/ \E p \in payloads : api_data' = p /\ pc' = "fetched"
       \/ pc' = "exit_1" /\ UNCHANGED api_data
    /\ UNCHANGED <<marker, images, run, should_generate, current_timestamp,
                   rows, outfile, layout, pre, prev>>

ShouldGenerateDashboard ==
    /\ pc = "fetched"
    /\ should_generate' = should_generate_dashboard(api_data, marker)[1]
    /\ current_timestamp' = should_generate_dashboard(api_data, marker)[2]
    /\ pc' = "checked"
    /\ UNCHANGED <<marker, images, run, api_data, rows, outfile, layout, pre, prev>>

\* the else branch of main: nothing is generated
SkipGeneration ==
    /\ pc = "checked"
    /\ ~should_generate
    /\ pc' = "done"
    /\ UNCHANGED <<marker, images, run, api_data, should_generate,
                   current_timestamp, rows, outfile, layout, pre, prev>>

\* create_dashboard, the clock reading now
CreateDashboard(now) ==
    /\ pc = "checked"
    /\ should_generate
    /\ IF DashboardRaises(api_data)
       THEN pc' = "raise_dashboard" /\ UNCHANGED <<rows, outfile>>
       ELSE /\ rows' = Rows(api_data)
            /\ outfile' = Outfile(DictGet(api_data, "latest_reading_time", JStr(<< >>)), now)
            /\ pc' = "dashboard"
    /\ UNCHANGED <<marker, images, run, api_data, should_generate,
                   current_timestamp, layout, pre, prev>>

\* generate_image, tl being the measured widths of the status sentences
GenerateImage(tl) ==
    /\ pc = "dashboard"
    /\ IF RenderRaises(rows)
       THEN pc' = "raise_render" /\ UNCHANGED <<images, layout>>
       ELSE /\ layout' = Layout(rows, tl)
            /\ images' = SaveImage(images, outfile, run)
            /\ pc' = "rendered"
    /\ UNCHANGED <<marker, run, api_data, should_generate, current_timestamp,
                   rows, outfile, pre, prev>>

\* SaveTimestamp moved in front of generate_image: the marker is written
\* while the image is still to be rendered
SaveTimestampBeforeRender ==
    /\ pc = "dashboard"
    /\ current_timestamp.t = "str"
    /\ marker' = [exists |-> TRUE, content |-> current_timestamp.s]
    /\ UNCHANGED <<images, pc, run, api_data, should_generate, current_timestamp,
                   rows, outfile, layout, pre, prev>>

\* save_timestamp(current_timestamp): open(..., 'w') empties the file, and
\* f.write raises TypeError for a value that is not a string
SaveTimestamp ==
    /\ pc = "rendered"
    /\ IF current_timestamp.t = "str"
       THEN /\ marker' = [exists |-> TRUE, content |-> current_timestamp.s]
            /\ pc' = "done"
       ELSE /\ marker' = [exists |-> TRUE, content |-> << >>]
            /\ pc' = "raise_save"
    /\ UNCHANGED <<images, run, api_data, should_generate, current_timestamp,
                   rows, outfile, layout, pre, prev>>

Ended == {"done", "exit_1", "raise_dashboard", "raise_render", "raise_save"}

\* the script is started again
NextRun ==
    /\ pc \in Ended
    /\ run < MaxRuns
    /\ run' = run + 1
    /\ pc' = "start"
    /\ pre' = [marker |-> marker, images |-> images]
    /\ prev' = [completed |-> (pc = "done" /\ should_generate),
                timestamp |-> IF pc = "exit_1" THEN JAbsent ELSE current_timestamp]
    /\ api_data' = NoPayload
    /\ should_generate' = FALSE
    /\ current_timestamp' = JAbsent
    /\ rows' = << >>
    /\ outfile' = << >>
    /\ layout' = NoLayout
    /\ UNCHANGED <<marker, images>>

---------------------------------------------------------------------------
(* The inputs.                                                             *)

TS_A == <<"0","9","-","S","e","p","-","2","0","2","5"," ","1","3",":","0","0"," ","P","K","T">>
TS_A_PADDED == <<"0","9","-","S","e","p","-","2","0","2","5"," ","1","3",":","0","0"," ","P","K","T"," ">>
TS_B == <<"0","9","-","S","e","p","-","2","0","2","5"," ","1","3",":","3","0"," ","P","K","T">>

Record(name, status, outflow_discharge, inflow_discharge, outflow_trend, inflow_trend) ==
    [name |-> name, status |-> status,
     outflow_discharge |-> outflow_discharge, inflow_discharge |-> inflow_discharge,
     outflow_trend |-> outflow_trend, inflow_trend |-> inflow_trend]

List(items) == [t |-> "list", items |-> items]

GoodData ==
    List(<< Record(JStr(<<"J","a","s","s","a","r">>), JStr(<<"H","I","G","H">>), JStr(<<"1","2",",","5","0","0">>), JAbsent,
                   JStr(<<"R","i","s","i","n","g">>), JAbsent) >>)
NullTrendData ==
    List(<< Record(JStr(<<"J","a","s","s","a","r">>), JStr(<<"L","O","W">>), JStr(<<"9","0","0">>), JAbsent,
                   JNull, JAbsent) >>)
NullData == [t |-> "null", items |-> << >>]

\* the payloads of the runs: a timestamp, the same one with a trailing
\* space, a later one, none at all and null, each with data that renders,
\* data whose trend cannot be drawn, and data that is no list
MainPayloads ==
    {[latest_reading_time |-> ts, data |-> d] :
        ts \in {JStr(TS_A), JStr(TS_A_PADDED), JStr(TS_B), JAbsent, JNull},
        d \in {GoodData, NullTrendData, NullData}}

Clock(day, month, hour, minute) ==
    [ok |-> TRUE, year |-> 2025, month |-> month, day |-> day,
     hour |-> hour, minute |-> minute]

NowValues == {Clock(10, 9, 0, 0), Clock(10, 9, 14, 5)}

NumRows == Len(STATION_ORDER)

\* every row fits on one line, or every row wraps
MainMeasures == {[i \in 1..NumRows |-> w] : w \in {TEXT_W, TEXT_W + MaxOverflow}}

---------------------------------------------------------------------------
(* The specification of repeated runs.                                     *)

Init ==
    /\ marker = NoMarker
    /\ images = {}
    /\ pc = "start"
    /\ run = 1
    /\ api_data = NoPayload
    /\ should_generate = FALSE
    /\ current_timestamp = JAbsent
    /\ rows = << >>
    /\ outfile = << >>
    /\ layout = NoLayout
    /\ pre = [marker |-> NoMarker, images |-> {}]
    /\ prev = NoPrev

Next ==
    \/ FetchApiData(MainPayloads)
    \/ ShouldGenerateDashboard
    \/ SkipGeneration
    \/ \E now \in NowValues : CreateDashboard(now)
    \/ \E tl \in MainMeasures : GenerateImage(tl)
    \/ SaveTimestamp
    \/ NextRun

Spec == Init /\ [][Next]_vars

---------------------------------------------------------------------------
(* Claims about repeated runs (specification Spec).                        *)

\* the current run has saved its image
ImageSavedThisRun == \E f \in images : f.run = run

\* the current run has compared its payload with the marker
Compared == pc \notin {"start", "fetched", "exit_1"}

\* C1: when the previous run completed (image and marker saved) for a
\* payload with timestamp t and this run's payload has the same timestamp t,
\* should_generate_dashboard returns False, no image is written and the
\* marker file is left as it was.
C1_IdempotentRerun ==
    (Compared /\ prev.completed /\ current_timestamp = prev.timestamp)
        => /\ ~should_generate
           /\ images = pre.images
           /\ marker = pre.marker

\* C2: a run whose payload carries a timestamp string, and that finds the
\* marker file absent or holding other text than that timestamp, proceeds to
\* render, and when it completes the marker holds the payload's timestamp.
C2_RendersOnAnyDifference ==
    (/\ Compared
     /\ current_timestamp.t = "str"
     /\ (~pre.marker.exists \/ pre.marker.content # current_timestamp.s))
        => /\ should_generate
           /\ (pc = "done" =>
                  marker = [exists |-> TRUE, content |-> current_timestamp.s])

\* C3: a run ends either with the image written and the marker holding the
\* payload's timestamp, or with the images and the marker as they were when
\* it started.
C3_AllOrNothing ==
    pc \in Ended =>
        \/ /\ ImageSavedThisRun
           /\ current_timestamp.t = "str"
           /\ marker = [exists |-> TRUE, content |-> current_timestamp.s]
        \/ /\ images = pre.images
           /\ marker = pre.marker

\* C4: the marker file changes only in a step of a run that has already
\* saved its image, and a run that ends in the failed fetch, in station
\* resolution or in rendering leaves the marker and the images as they were
\* when it started.
C4_MarkerOnlyAfterImage ==
    [][/\ (marker' # marker => (pc = "rendered" /\ ImageSavedThisRun))
       /\ (pc' \in {"exit_1", "raise_dashboard", "raise_render"} =>
              (marker' = pre'.marker /\ images' = pre'.images))]_vars

\* a later run fails while rendering, after an earlier run left a marker
\* and an image
C4_Witness ==
    /\ run > 1
    /\ pc = "raise_render"
    /\ marker.exists
    /\ images # {}

---------------------------------------------------------------------------
(* Station resolution of one run (specification SpecRows).                 *)

StatusValues ==
    {JStr(SEVERITY_COLORS[k][1]) : k \in 1..Len(SEVERITY_COLORS)}
        \cup {JStr(<<"C","R","I","T","I","C","A","L">>), JStr(<<"h","i","g","h">>), JNull, JAbsent}

\* Jassar under every status, and other names (a standalone station, a
\* name with spaces, a name of another letter case, an unknown station)
RecordChoices ==
    {Record(JStr(<<"J","a","s","s","a","r">>), st, JStr(<<"1","2",",","5","0","0">>), JAbsent, JStr(<<"R","i","s","i","n","g">>), JAbsent) :
        st \in StatusValues}
    \cup {Record(JStr(nm), JStr(<<"H","I","G","H">>), JStr(<<"9","0","0">>), JAbsent, JStr(<<"F","a","l","l","i","n","g">>), JAbsent) :
        nm \in {<<"G","u","d","d","u">>, <<"G","a","n","d","a"," ","S","i","n","g","h"," ","W","a","l","a">>, <<"j","a","s","s","a","r">>, <<"U","n","k","n","o","w","n">>}}
    \cup {Record(JStr(<<"G","u","d","d","u">>), JStr(<<"M","E","D","I","U","M">>), JAbsent, JStr(<<"7","0","0","0","0">>), JAbsent, JAbsent)}

SeqsUpTo(S, n) == UNION {[1..k -> S] : k \in 0..n}

RowPayloads ==
    {[latest_reading_time |-> JStr(TS_A), data |-> List(items)] :
        items \in SeqsUpTo(RecordChoices, MaxRecords)}

RowsNext ==
    \/ FetchApiData(RowPayloads)
    \/ ShouldGenerateDashboard
    \/ \E now \in NowValues : CreateDashboard(now)
    \/ \E tl \in MainMeasures : GenerateImage(tl)
    \/ SaveTimestamp

SpecRows == Init /\ [][RowsNext]_vars

\* create_dashboard has returned its rows
HasRows == pc \in {"dashboard", "rendered", "done"}

Present(data, station_name) == \E k \in 1..Len(data) : data[k].name = JStr(station_name)

\* the payload with a record added for every configured station it lacks
Completed(payload) ==
    LET missing == SelectSeq(STATION_ORDER,
                             LAMBDA st : ~Present(DataOf(payload), st.api_name))
    IN  [payload EXCEPT !.data =
            List(DataOf(payload) \o
                 [k \in 1..Len(missing) |->
                     Record(JStr(missing[k].api_name), JStr(<<"M","E","D","I","U","M">>), JStr(<<"1">>),
                            JAbsent, JStr(<<"R","i","s","i","n","g">>), JAbsent)])]

\* C5: create_dashboard raises nothing and returns one row per entry of
\* STATION_ORDER, in that order; a station the payload lacks gets "Normal",
\* "0 cusecs" and "Steady"; the row of a station the payload holds is the row
\* it has when no station is missing.
C5_NoStationOmitted ==
    /\ pc # "raise_dashboard"
    /\ HasRows =>
          /\ Len(rows) = 11
          /\ \A i \in 1..Len(STATION_ORDER) :
                /\ rows[i].title
                      = STATION_ORDER[i].river \o <<" ","a","t"," ">> \o STATION_ORDER[i].headwork
                /\ rows[i].short_name = STATION_ORDER[i].short_name
          /\ rows[1].title = <<"R","a","v","i"," ","a","t"," ","J","a","s","s","a","r">>
          /\ rows[8].short_name = <<"G","."," ","S","."," ","W","a","l","a">>
          /\ rows[11].title = <<"I","n","d","u","s"," ","a","t"," ","G","u","d","d","u">>
          /\ \A i \in 1..Len(STATION_ORDER) :
                IF Present(DataOf(api_data), STATION_ORDER[i].api_name)
                THEN rows[i] = Rows(Completed(api_data))[i]
                ELSE /\ rows[i].severity = <<"N","o","r","m","a","l">>
                     /\ rows[i].flow = <<"0"," ","c","u","s","e","c","s">>
                     /\ rows[i].trend = JStr(<<"S","t","e","a","d","y">>)

\* Guddu is in the payload behind an unknown station, Jassar is not
C5_Witness ==
    /\ pc = "dashboard"
    /\ Len(DataOf(api_data)) = 2
    /\ DataOf(api_data)[1].name = JStr(<<"U","n","k","n","o","w","n">>)
    /\ DataOf(api_data)[2].name = JStr(<<"G","u","d","d","u">>)
    /\ rows[11].severity = <<"H","i","g","h">>
    /\ rows[1].severity = <<"N","o","r","m","a","l">>
    /\ rows[1].flow = <<"0"," ","c","u","s","e","c","s">>

\* the canonical code of every spelling that has one
CanonicalCode == <<
    << <<"N","O","R","M","A","L">>, <<"N","O","R","M","A","L">> >>,
    << <<"L","O","W">>, <<"L","O","W">> >>,
    << <<"M","E","D","I","U","M">>, <<"M","E","D","I","U","M">> >>,
    << <<"H","I","G","H">>, <<"H","I","G","H">> >>,
    << <<"V","E","R","Y","_","H","I","G","H">>, <<"V","E","R","Y","_","H","I","G","H">> >>,
    << <<"V","E","R","Y"," ","H","I","G","H">>, <<"V","E","R","Y","_","H","I","G","H">> >>,
    << <<"V","_","H","I","G","H">>, <<"V","E","R","Y","_","H","I","G","H">> >>,
    << <<"E","X","_","H","I","G","H">>, <<"E","X","_","H","I","G","H">> >>,
    << <<"E","X","C","E","P","T","I","O","N","A","L","L","Y","_","H","I","G","H">>, <<"E","X","_","H","I","G","H">> >>,
    << <<"E","X","C","E","P","T","I","O","N","A","L","L","Y"," ","H","I","G","H">>, <<"E","X","_","H","I","G","H">> >> >>

\* C6: a row whose status is a spelling with a canonical code shows the
\* label and the dot colour of that canonical code; a row whose status has
\* no mapping shows the label "Normal".
C6_SeverityNormalization ==
    pc = "rendered" =>
        \A i \in 1..Len(rows) :
            LET canon == Lookup(CanonicalCode, rows[i].status, << >>)
            IN  IF canon # << >>
                THEN /\ rows[i].severity = Lookup(SEVERITY_DISPLAY, JStr(canon), << >>)
                     /\ layout.dots[i].color = Lookup(SEVERITY_COLORS, JStr(canon), "")
                ELSE rows[i].severity = <<"N","o","r","m","a","l">>

---------------------------------------------------------------------------
(* The layout of one run (specification SpecLayout).                       *)

LayoutPayloads == {[latest_reading_time |-> JStr(TS_A), data |-> GoodData]}

\* every row either just fits the text column or overflows it
AllMeasures == [1..NumRows -> {TEXT_W, TEXT_W + MaxOverflow}]

LayoutNext ==
    \/ FetchApiData(LayoutPayloads)
    \/ ShouldGenerateDashboard
    \/ \E now \in NowValues : CreateDashboard(now)
    \/ \E tl \in AllMeasures : GenerateImage(tl)
    \/ SaveTimestamp

SpecLayout == Init /\ [][LayoutNext]_vars

Rendered == pc \in {"rendered", "done"}

\* C7: the dot of every row is centred at (row_top_y + status_bottom_y) \div 2,
\* row_top_y being where the row's title is painted and status_bottom_y the
\* bottom edge draw_status returned, on one line or two.
C7_DotCentredOnRow ==
    Rendered =>
        \A i \in 1..Len(layout.placed) :
            layout.dots[i].y
                = (layout.placed[i].title_y + layout.placed[i].bottom) \div 2

AdjacentInGroup(a, b) ==
    \E g \in 1..Len(GROUPS) :
        \E k \in 1..(Len(GROUPS[g]) - 1) : GROUPS[g][k] = a /\ GROUPS[g][k + 1] = b

Drawn(a, b) ==
    \E k \in 1..Len(layout.connectors) :
        layout.connectors[k].a = a /\ layout.connectors[k].b = b

\* C8: a connector is drawn between rows a and b exactly when a and b are
\* adjacent entries of one group of GROUPS, from the lower edge of a's dot to
\* the upper edge of b's; none joins 3 to 4 or 6 to 7, and row 10 is an
\* endpoint of none.
C8_ConnectorsWithinGroups ==
    Rendered =>
        /\ \A a, b \in 0..(NumRows - 1) : Drawn(a, b) <=> AdjacentInGroup(a, b)
        /\ {<<layout.connectors[k].a, layout.connectors[k].b>> :
                k \in 1..Len(layout.connectors)}
             = {<<0, 1>>, <<1, 2>>, <<2, 3>>, <<4, 5>>, <<5, 6>>, <<7, 8>>, <<8, 9>>}
        /\ Len(layout.connectors) = 7
        /\ ~Drawn(3, 4) /\ ~Drawn(6, 7)
        /\ \A k \in 1..Len(layout.connectors) :
              /\ layout.connectors[k].a # 10 /\ layout.connectors[k].b # 10
              /\ layout.connectors[k].y1
                    = layout.dots[layout.connectors[k].a + 1].y + DOT_R
              /\ layout.connectors[k].y2
                    = layout.dots[layout.connectors[k].b + 1].y - DOT_R

\* the image is drawn with row 3 on one line and row 4 wrapped
C8_Witness ==
    /\ pc = "rendered"
    /\ layout.placed[4].lines = 1
    /\ layout.placed[5].lines = 2
    /\ Drawn(2, 3)
    /\ Drawn(4, 5)

\* C9: the canvas is at least 1920 high, and for every combination of
\* one-line and two-line status blocks the bottom edge of every row, the
\* last one included, lies at or above the top of the 32 pixel footer band.
C9_CanvasHoldsAllRows ==
    Rendered =>
        /\ layout.H >= 1920
        /\ layout.bar_top = layout.H - 32
        /\ \A i \in 1..Len(layout.placed) : layout.placed[i].bottom <= layout.H - 32
        /\ layout.placed[NumRows].bottom <= layout.H - 32

\* every status block wrapped: the tallest layout
C9_Witness ==
    /\ pc = "rendered"
    /\ Len(layout.placed) = 11
    /\ \A i \in 1..Len(layout.placed) : layout.placed[i].lines = 2
    /\ layout.placed[11].bottom = 2211
    /\ layout.H = 2374

---------------------------------------------------------------------------
(* The file name of one run (specification SpecFilename).                  *)

\* a report timestamp as the API writes it: dd-Mon-2025 HH:MM and the zone
Stamp(d, M, h, m, zone) ==
    Pad2(d) \o <<"-">> \o MonthAbbr[M] \o <<"-","2","0","2","5"," ">> \o Pad2(h) \o <<":">> \o Pad2(m) \o zone

StampDays == {1, 9, 10, 31}
StampMonths == {2, 9, 12}
StampMinutes == {0, 5, 30, 59}

FilenamePayloads ==
    {[latest_reading_time |-> JStr(Stamp(d, M, h, m, zone)), data |-> GoodData] :
        d \in StampDays, M \in StampMonths, h \in 0..23, m \in StampMinutes,
        zone \in {<<" ","P","K","T">>, <<" ","P","S","T">>}}

FilenameNext ==
    \/ FetchApiData(FilenamePayloads)
    \/ ShouldGenerateDashboard
    \/ \E now \in NowValues : CreateDashboard(now)
    \/ \E tl \in MainMeasures : GenerateImage(tl)
    \/ SaveTimestamp

SpecFilename == Init /\ [][FilenameNext]_vars

\* the two-digit number at positions k, k + 1 of a timestamp
TwoDigitsAt(s, k) == DigitVal(s[k]) * 10 + DigitVal(s[k + 1])

\* the file name the claim gives for day d, month M, hour h, minute m
ClaimedName(d, M, h, m) ==
    NatToStr(d) \o <<" ">> \o MonthAbbr[M] \o <<" ">>
        \o NatToStr(((h + 11) % 12) + 1)
        \o (IF m = 0 THEN << >> ELSE <<"-", Digits[(m \div 10) + 1], Digits[(m % 10) + 1]>>)
        \o <<" ">> \o (IF h < 12 THEN <<"A","M">> ELSE <<"P","M">>) \o <<".","p","n","g">>

\* C10: for a report timestamp of day d, month M, hour h and minute m that
\* parses, the file name is "d Mon h12 AM|PM.png" when m = 0 and
\* "d Mon h12-mm AM|PM.png" otherwise, h12 in 1..12 and AM exactly when
\* h < 12; 09-Sep-2025 13:00 PKT gives "9 Sep 1 PM.png" and 13:30 gives
\* "9 Sep 1-30 PM.png".
C10_Filename ==
    HasRows =>
        LET ts == api_data.latest_reading_time.s
            d == TwoDigitsAt(ts, 1)
            M == CHOOSE k \in 1..12 : MonthAbbr[k] = SubSeq(ts, 4, 6)
            h == TwoDigitsAt(ts, 13)
            m == TwoDigitsAt(ts, 16)
        IN  /\ d <= DaysInMonth(2025, M) => outfile = ClaimedName(d, M, h, m)
            /\ ts = TS_A => outfile = <<"9"," ","S","e","p"," ","1"," ","P","M",".","p","n","g">>
            /\ ts = TS_B => outfile = <<"9"," ","S","e","p"," ","1","-","3","0"," ","P","M",".","p","n","g">>

\* the run of the 13:30 report has named its file
C10_Witness ==
    /\ pc = "dashboard"
    /\ api_data.latest_reading_time = JStr(TS_B)
    /\ outfile = <<"9"," ","S","e","p"," ","1","-","3","0"," ","P","M",".","p","n","g">>

---------------------------------------------------------------------------
(* The fields of a found record (specification SpecFields).                *)

\* one record of a configured station, every field absent, null or set
FieldRecords ==
    {Record(JStr(nm), st, od, id, ot, it) :
        nm \in {<<"B","a","l","l","o","k","i">>, <<"G","u","d","d","u">>},
        st \in {JAbsent, JNull, JStr(<<"L","O","W">>)},
        od \in {JAbsent, JNull, JStr(<<"1","2",",","5","0","0">>), JInt(1234567)},
        id \in {JAbsent, JStr(<<"7","0","0","0","0">>), JStr(<<"n","/","a">>)},
        ot \in {JAbsent, JNull, JStr(<<"R","i","s","i","n","g">>)},
        it \in {JAbsent, JStr(<<"F","a","l","l","i","n","g">>)}}

FieldPayloads ==
    {[latest_reading_time |-> JStr(TS_A), data |-> List(<<r>>)] : r \in FieldRecords}

FieldsNext ==
    \/ FetchApiData(FieldPayloads)
    \/ ShouldGenerateDashboard
    \/ \E now \in NowValues : CreateDashboard(now)
    \/ \E tl \in MainMeasures : GenerateImage(tl)
    \/ SaveTimestamp

SpecFields == Init /\ [][FieldsNext]_vars

\* create_dashboard has returned, whatever became of the run afterwards
Resolved == pc \in {"dashboard", "rendered", "done", "raise_render", "raise_save"}

Carries(record, key) == record[key].t # "absent"

\* the first record of the payload named as station i, 0 without one
FirstRecord(i) ==
    LET data == DataOf(api_data)
        named == {k \in 1..Len(data) : data[k].name = JStr(STATION_ORDER[i].api_name)}
    IN  IF named = {} THEN 0 ELSE CHOOSE k \in named : \A j \in named : k <= j

\* C11: the row of a station found in the payload shows the formatted
\* outflow_discharge when the record carries that key, otherwise the
\* formatted inflow_discharge, otherwise "0 cusecs"; its trend is
\* outflow_trend when the record carries it, otherwise inflow_trend,
\* otherwise "Steady"; its status is "NORMAL" when the record carries none.
C11_FieldPreference ==
    Resolved =>
        \A i \in 1..Len(STATION_ORDER) :
            FirstRecord(i) # 0 =>
                LET r == DataOf(api_data)[FirstRecord(i)]
                IN  /\ rows[i].flow =
                          IF Carries(r, "outflow_discharge")
                          THEN format_flow(r.outflow_discharge)
                          ELSE IF Carries(r, "inflow_discharge")
                               THEN format_flow(r.inflow_discharge)
                               ELSE <<"0"," ","c","u","s","e","c","s">>
                    /\ r.outflow_discharge = JStr(<<"1","2",",","5","0","0">>)
                          => rows[i].flow = <<"1","2",",","5","0","0"," ","c","u","s","e","c","s">>
                    /\ r.outflow_discharge = JInt(1234567)
                          => rows[i].flow = <<"1",",","2","3","4",",","5","6","7"," ","c","u","s","e","c","s">>
                    /\ (r.outflow_discharge = JAbsent /\ r.inflow_discharge = JStr(<<"7","0","0","0","0">>))
                          => rows[i].flow = <<"7","0",",","0","0","0"," ","c","u","s","e","c","s">>
                    /\ (r.outflow_discharge = JAbsent /\ r.inflow_discharge = JStr(<<"n","/","a">>))
                          => rows[i].flow = <<"n","/","a"," ","c","u","s","e","c","s">>
                    /\ rows[i].trend =
                          IF Carries(r, "outflow_trend") THEN r.outflow_trend
                          ELSE IF Carries(r, "inflow_trend") THEN r.inflow_trend
                               ELSE JStr(<<"S","t","e","a","d","y">>)
                    /\ rows[i].status =
                          IF Carries(r, "status") THEN r.status ELSE JStr(<<"N","O","R","M","A","L">>)

\* Guddu's record carries both discharges and both trends and no status
C11_Witness ==
    /\ pc = "dashboard"
    /\ FirstRecord(11) = 1
    /\ DataOf(api_data)[1].outflow_discharge = JStr(<<"1","2",",","5","0","0">>)
    /\ DataOf(api_data)[1].inflow_discharge = JStr(<<"7","0","0","0","0">>)
    /\ DataOf(api_data)[1].inflow_trend = JStr(<<"F","a","l","l","i","n","g">>)
    /\ DataOf(api_data)[1].status = JAbsent
    /\ rows[11].flow = <<"1","2",",","5","0","0"," ","c","u","s","e","c","s">>
    /\ rows[11].trend = JStr(<<"R","i","s","i","n","g">>)
    /\ rows[11].status = JStr(<<"N","O","R","M","A","L">>)

---------------------------------------------------------------------------
(* The two colours of a row (specification SpecRows).                      *)

\* the severity each display label names
LabelSeverity == <<
    << <<"N","o","r","m","a","l">>, <<"N","O","R","M","A","L">> >>,
    << <<"L","o","w">>, <<"L","O","W">> >>,
    << <<"M","e","d","i","u","m">>, <<"M","E","D","I","U","M">> >>,
    << <<"H","i","g","h">>, <<"H","I","G","H">> >>,
    << <<"V"," ","H","i","g","h">>, <<"V","E","R","Y","_","H","I","G","H">> >>,
    << <<"E","x"," ","H","i","g","h">>, <<"E","X","_","H","I","G","H">> >> >>

\* C12: in every rendered row, whatever status string the payload gave, the
\* fill colour of the dot equals the colour of the "{Severity} Flood" phrase
\* of the status line, and both are the colour of the severity that the
\* row's displayed label names.
C12_DotAndPhraseColourAgree ==
    pc = "rendered" =>
        \A i \in 1..Len(rows) :
            /\ layout.dots[i].color = layout.placed[i].sev_color
            /\ layout.dots[i].color =
                   Lookup(SEVERITY_COLORS,
                          JStr(Lookup(LabelSeverity, JStr(rows[i].severity), << >>)), "")

===========================================================================
